---- MODULE Spec2Model ----
(***************************************************************************)
(* The weighted fair-assignment core of soundscheduler.py: the calendar    *)
(* generator sound_shifts, the roster construction Operators.fromconfig /  *)
(* transform_avail, the weighted draw choices, and the loop of             *)
(* sound_scheduler, one action per loop iteration.                         *)
(*                                                                         *)
(* Dates are proleptic Gregorian ordinals (datetime.date.toordinal); the   *)
(* model works in the window 2017-01-01 .. 2017-01-31, where the           *)
(* conversions between ordinals and formatted strings are spelled out.     *)
(* A date string "2017-01-dd" is the tuple <<2017, 1, dd>>, a "%b %d"      *)
(* string the tuple <<"Jan", dd>>.                                         *)
(***************************************************************************)
EXTENDS Integers, Sequences, FiniteSets, TLC

\* Number of calendar days the date range may span.
MaxDays == 2

\* ------------------------------------------------------------------ dates

\* toordinal() of 2017-01-01, which is a Sunday (736330).
Base == 7 * 105190

WeekdayNames ==
  <<"Sunday", "Monday", "Tuesday", "Wednesday", "Thursday", "Friday", "Saturday">>

\* date.strftime('%A'): ordinal 1 (0001-01-01) is a Monday.
strftime_A(date) == WeekdayNames[(date % 7) + 1]

\* date.strftime(DATE_FORMAT) with DATE_FORMAT = '%Y-%m-%d', in January 2017.
strftime_Ymd(date) == <<2017, 1, date - Base + 1>>

\* date.strftime('%b %d'), in January 2017: the year is not part of the string.
strftime_bd(date) == <<"Jan", date - Base + 1>>

\* Date.fromstring(s, DATE_FORMAT): strptime, toordinal, fromordinal.
fromstring(s) == Base + s[3] - 1

\* ------------------------------------------------------------ sequences

Range(s) == {s[j] : j \in 1..Len(s)}

\* min(...) of a non-empty collection of integers
Min(S) == CHOOSE v \in S : \A w \in S : v <= w

RECURSIVE SumSeq(_)
SumSeq(s) == IF s = <<>> THEN 0 ELSE Head(s) + SumSeq(Tail(s))

RECURSIVE Flatten(_)
Flatten(ss) == IF ss = <<>> THEN <<>> ELSE Head(ss) \o Flatten(Tail(ss))

\* list(a_set): the elements of a set in an iteration order that is fixed by
\* the string hashes of the interpreter process (randomised per process), so
\* any enumeration without repetition can come out.
ListsOfSet(S) ==
  {s \in [1..Cardinality(S) -> S] : \A a, b \in 1..Cardinality(S) : s[a] = s[b] => a = b}

\* --------------------------------------------------------- sound_shifts

\* the helper generator dates(first, last): range(first_num, last_num+1)
dates_exclusive(first, last) ==
  [j \in 1..(IF last > first THEN last - first ELSE 0) |-> first + j - 1]

dates_swapped(first, last) ==
  IF last < first
    THEN [j \in 1..(first + 1 - last) |-> last + j - 1]
    ELSE [j \in 1..(last + 1 - first) |-> first + j - 1]

dates(first, last) ==
  [j \in 1..(IF last + 1 > first THEN last + 1 - first ELSE 0) |-> first + j - 1]

\* the shifts of one date: time_data.shifts[weekday], [] on KeyError
shifts_of_reversed(td, full_date) ==
  IF strftime_A(full_date) \in DOMAIN td.shifts
    THEN [m \in 1..Len(td.shifts[strftime_A(full_date)]) |->
            td.shifts[strftime_A(full_date)]
              [Len(td.shifts[strftime_A(full_date)]) + 1 - m]]
    ELSE <<>>

shifts_of(td, full_date) ==
  IF strftime_A(full_date) \in DOMAIN td.shifts
    THEN td.shifts[strftime_A(full_date)]
    ELSE <<>>

\* the whole sequence the generator yields, as <<full_date, shift>> pairs
sound_shifts(td) ==
  LET ds == dates(td.first_date, td.last_date)
  IN  Flatten([j \in 1..Len(ds) |->
        [m \in 1..Len(shifts_of(td, ds[j])) |-> <<ds[j], shifts_of(td, ds[j])[m]>>]])

\* ------------------------------------------------------------ Operators

\* Number of times day occurs in the list shifts.
Occurrences(shifts, day) == Cardinality({m \in 1..Len(shifts) : shifts[m] = day})

\* Operators.transform_avail: transpose name -> days into day -> names. old_d
\* is the dict d of fromconfig in insertion order, a sequence of <<name, days>>
\* with distinct names; a day listed twice by one operator appends the name
\* twice.
transform_avail_all(old_d) ==
  [day \in UNION {Range(old_d[j][2]) : j \in 1..Len(old_d)} |->
     [j \in 1..Len(old_d) |-> old_d[j][1]]]

transform_avail(old_d) ==
  [day \in UNION {Range(old_d[j][2]) : j \in 1..Len(old_d)} |->
     Flatten([j \in 1..Len(old_d) |->
       [q \in 1..Occurrences(old_d[j][2], day) |-> old_d[j][1]]])]

\* read_exceptions raises KeyError at array['shifts'][weekday] when a
\* whole-day exception falls on a weekday without configured shifts.
read_exceptions_raises(operator, array) ==
  /\ "exceptions" \in DOMAIN operator
  /\ \E j \in 1..Len(operator.exceptions) :
       /\ Len(operator.exceptions[j]) <= 1
       /\ strftime_A(fromstring(operator.exceptions[j][1])) \notin DOMAIN array.shifts

\* read_exceptions: the set of (date, shift) tuples of one operator.
read_exceptions(operator, array) ==
  IF "exceptions" \notin DOMAIN operator
    THEN {}
    ELSE UNION {
      IF Len(operator.exceptions[j]) > 1
        THEN {operator.exceptions[j]}
        ELSE {<<operator.exceptions[j][1], shift>> :
                shift \in Range(array.shifts[
                  strftime_A(fromstring(operator.exceptions[j][1]))])}
      : j \in 1..Len(operator.exceptions)}

\* Operators.fromconfig followed by Operators.__init__.
fromconfig_raises(array) ==
  \E j \in 1..Len(array.operators) : read_exceptions_raises(array.operators[j], array)

\* The KeyError raised, whose argument is the weekday looked up: that of the
\* first operator with such an exception.
fromconfig_error(array) ==
  LET j == Min({i \in 1..Len(array.operators) :
                  read_exceptions_raises(array.operators[i], array)})
      q == Min({i \in 1..Len(array.operators[j].exceptions) :
                  /\ Len(array.operators[j].exceptions[i]) <= 1
                  /\ strftime_A(fromstring(array.operators[j].exceptions[i][1]))
                       \notin DOMAIN array.shifts})
  IN  [type |-> "KeyError",
       args |-> <<strftime_A(fromstring(array.operators[j].exceptions[q][1]))>>]

fromconfig(array) ==
  LET ops  == array.operators
      with == SelectSeq(ops, LAMBDA o : o.shifts # <<>>)
      d    == [j \in 1..Len(with) |-> <<with[j].name, with[j].shifts>>]
      keys == UNION {read_exceptions(ops[j], array) : j \in 1..Len(ops)}
      e    == [key \in keys |->
                {ops[j].name : j \in {i \in 1..Len(ops) : key \in read_exceptions(ops[i], array)}}]
  IN  [availability |-> transform_avail(d),
       names        |-> [j \in 1..Len(d) |-> d[j][1]],
       exceptions   |-> e]

\* --------------------------------------------------------------- choices

\* itertools.accumulate(rel_weights)
accumulate(weights) == [j \in 1..Len(weights) |-> SumSeq(SubSeq(weights, 1, j))]

\* bisect.bisect(a, x) on a sorted list: the number of elements <= x.
bisect_left(a, x) == Cardinality({j \in 1..Len(a) : a[j] < x})

bisect(a, x) == Cardinality({j \in 1..Len(a) : a[j] <= x})

\* The values floor(r.random() * cum_weights[-1]) can take. r.random() is in
\* [0, 1); the cumulative weights are integers, so bisect of the real product
\* depends on its integer part only. With an empty list no draw is made.
draws(weights) == IF weights = <<>> THEN {0} ELSE 0..(SumSeq(weights) - 1)

IndexError == [type |-> "IndexError", args |-> <<"list index out of range">>]

\* choices(population, rel_weights) with draw x: cum_weights[-1] raises
\* IndexError on an empty list; otherwise population[ix].
choices_default(population, weights, x) ==
  IF accumulate(weights) = <<>>
    THEN [raised |-> FALSE, item |-> ""]
    ELSE [raised |-> FALSE, item |-> population[bisect(accumulate(weights), x) + 1]]

choices(population, weights, x) ==
  IF accumulate(weights) = <<>>
    THEN [raised |-> TRUE, item |-> ""]
    ELSE [raised |-> FALSE, item |-> population[bisect(accumulate(weights), x) + 1]]

\* ----------------------------------------------- sound_scheduler, pieces

\* operators.availability[shift] on a defaultdict(list): a missing key reads
\* as [] ...
lookup_any(availability, shift) ==
  IF shift \in DOMAIN availability
    THEN availability[shift]
    ELSE IF DOMAIN availability = {}
      THEN <<>>
      ELSE availability[CHOOSE other \in DOMAIN availability : TRUE]

lookup(availability, shift) ==
  IF shift \in DOMAIN availability THEN availability[shift] ELSE <<>>

\* ... and is inserted by the read.
lookup_insert(availability, shift) ==
  IF shift \in DOMAIN availability THEN availability ELSE availability @@ (shift :> <<>>)

\* if k in operators.exceptions: pop = list(set(pop) - operators.exceptions[k])
\* The possible lists.
after_exceptions_ignored(pop, exceptions, k) == {pop}

after_exceptions(pop, exceptions, k) ==
  IF k \in DOMAIN exceptions THEN ListsOfSet(Range(pop) \ exceptions[k]) ELSE {pop}

\* if len(pop) > 1: pop = list(set(pop) - set([last_person]))
after_no_repeat_unordered(pop, last) ==
  IF Len(pop) > 1 THEN ListsOfSet(Range(pop)) ELSE {pop}

after_no_repeat(pop, last) ==
  IF Len(pop) > 1 THEN ListsOfSet(Range(pop) \ {last}) ELSE {pop}

\* rel_weights[name] on a Counter: a missing key reads as 0.
weight_of(rel_weights, name) ==
  IF name \in DOMAIN rel_weights THEN rel_weights[name] ELSE 0

\* counts.update((sound_person,))
counts_update_twice(counts, sound_person) ==
  IF sound_person \in DOMAIN counts
    THEN [counts EXCEPT ![sound_person] = @ + 2]
    ELSE counts @@ (sound_person :> 2)

counts_update(counts, sound_person) ==
  IF sound_person \in DOMAIN counts
    THEN [counts EXCEPT ![sound_person] = @ + 1]
    ELSE counts @@ (sound_person :> 1)

\* for name in diff: rel_weights[name] *= 10
times_ten_all(rel_weights, names, sound_person) ==
  [name \in DOMAIN rel_weights |-> rel_weights[name] * 10]

times_ten_additive(rel_weights, names, sound_person) ==
  [name \in DOMAIN rel_weights |->
     IF name \in Range(names) \ {sound_person}
       THEN rel_weights[name] + 10
       ELSE rel_weights[name]]

times_ten(rel_weights, names, sound_person) ==
  [name \in DOMAIN rel_weights |->
     IF name \in Range(names) \ {sound_person}
       THEN rel_weights[name] * 10
       ELSE rel_weights[name]]

\* the weight update: times ten for everybody else, then floor division of
\* every weight by the minimum
update_unscaled(rel_weights, names, sound_person) ==
  times_ten(rel_weights, names, sound_person)

update(rel_weights, names, sound_person) ==
  LET w  == times_ten(rel_weights, names, sound_person)
      lo == Min({w[name] : name \in DOMAIN w})
  IN  [name \in DOMAIN w |-> w[name] \div lo]

Diagnostic_swapped(counts, rel_weights, shift_counts, shift_weights) ==
  [counts |-> rel_weights, rel_weights |-> counts,
   shift_counts |-> shift_counts, shift_weights |-> shift_weights]

Diagnostic(counts, rel_weights, shift_counts, shift_weights) ==
  [counts |-> counts, rel_weights |-> rel_weights,
   shift_counts |-> shift_counts, shift_weights |-> shift_weights]

\* ---------------------------------------------------------------- inputs

\* The date strings of the first two days of the window (a Sunday, a Monday).
Day1 == strftime_Ymd(Base)
Day2 == strftime_Ymd(Base + 1)

\* The 'exceptions' array of an operator table; <<>> stands for a table
\* without the key.
ExceptionChoices == {<<>>, <<<<Day1>>>>, <<<<Day1, "am">>>>, <<<<Day2>>>>}

\* One [[operators]] table of the configuration.
OperatorTable(name, shifts, exceptions) ==
  IF exceptions = <<>>
    THEN [name |-> name, shifts |-> shifts]
    ELSE [name |-> name, shifts |-> shifts, exceptions |-> exceptions]

ShiftChoices == {<<>>, <<"am">>, <<"am", "pm">>, <<"am", "am">>}

\* The rosters: three operators with distinct names. Operator A takes every
\* shift list and every exceptions array, B and C a part of them.
Rosters ==
  {<<OperatorTable("A", sa, ea), OperatorTable("B", sb, eb), OperatorTable("C", sc, <<>>)>> :
     sa \in ShiftChoices, ea \in ExceptionChoices,
     sb \in ShiftChoices \ {<<"am", "am">>}, eb \in {<<>>, <<<<Day1, "am">>>>},
     sc \in ShiftChoices \ {<<"am", "am">>}}

\* The [shifts] tables: weekday name -> list of shifts.
ShiftTables ==
  { [Sunday |-> <<"am", "pm">>, Monday |-> <<"am">>],
    [Sunday |-> <<"pm", "am">>],
    [Sunday |-> <<"am">>, Monday |-> <<"am">>, Tuesday |-> <<"am">>] }

Configs ==
  {[start_date |-> strftime_Ymd(f), end_date |-> strftime_Ymd(l),
    shifts |-> t, operators |-> r] :
     f \in Base..(Base + 1), l \in Base..(Base + MaxDays - 1),
     t \in ShiftTables, r \in Rosters}

\* ----------------------------------------------------------------- state

VARIABLES
  config,        \* the parsed TOML configuration
  time_data,     \* TimeData(first_date, last_date, shifts)
  operators,     \* the Operators object: availability, names, exceptions
  pc,            \* "loop", "done", or the name of the exception that ended the run
  error,         \* the exception raised, if any
  n,             \* number of pairs taken from the generator sound_shifts
  counts, rel_weights, schedule, diagnostics, last_person,
  \* a second run of sound_scheduler on the same inputs and the same draws,
  \* in another interpreter process
  pc2, rel_weights2, schedule2, last_person2

vars == <<config, time_data, operators, pc, error, n,
          counts, rel_weights, schedule, diagnostics, last_person,
          pc2, rel_weights2, schedule2, last_person2>>

run2 == <<pc2, rel_weights2, schedule2, last_person2>>

NoError == [type |-> "", args |-> <<>>]

\* Counter(operators.names)
Counter(names) == [name \in Range(names) |-> Occurrences(names, name)]

\* main up to the call of sound_scheduler, and the first lines of
\* sound_scheduler.
Init ==
  \E c \in Configs :
    /\ config = c
    /\ time_data = [first_date |-> fromstring(c.start_date),
                    last_date  |-> fromstring(c.end_date),
                    shifts     |-> c.shifts]
    /\ IF fromconfig_raises(c)
         THEN /\ operators = [availability |-> <<>>, names |-> <<>>, exceptions |-> <<>>]
              /\ pc = "KeyError"
              /\ error = fromconfig_error(c)
         ELSE /\ operators = fromconfig(c)
              /\ pc = "loop"
              /\ error = NoError
    /\ n = 0
    /\ counts = <<>>
    /\ rel_weights = Counter(operators.names)
    /\ schedule = <<>>
    /\ diagnostics = <<>>
    /\ last_person = ""
    /\ pc2 = pc
    /\ rel_weights2 = rel_weights
    /\ schedule2 = <<>>
    /\ last_person2 = ""

\* The lists pop can be when the draw is made.
pools(availability, exceptions, k, shift, last) ==
  UNION {after_no_repeat(p, last) :
           p \in after_exceptions(lookup(availability, shift), exceptions, k)}

\* weights = [rel_weights[name] for name in pop]
weights_of(rel_weights_, pop) == [j \in 1..Len(pop) |-> weight_of(rel_weights_, pop[j])]

\* One iteration of the for loop of sound_scheduler, with the list pop as it
\* came out of the set operations and the draw x.
Iteration(pop, x) ==
  LET date    == sound_shifts(time_data)[n + 1][1]
      shift   == sound_shifts(time_data)[n + 1][2]
      weights == weights_of(rel_weights, pop)
      drawn   == choices(pop, weights, x)
      sound_person == drawn.item
  IN  /\ n' = n + 1
      /\ operators' = [operators EXCEPT !.availability = lookup_insert(@, shift)]
      /\ diagnostics' = Append(diagnostics, Diagnostic(counts, rel_weights, pop, weights))
      /\ IF drawn.raised
           THEN /\ pc' = "IndexError"
                /\ error' = IndexError
                /\ UNCHANGED <<counts, rel_weights, schedule, last_person>>
           ELSE /\ last_person' = sound_person
                /\ counts' = counts_update(counts, sound_person)
                /\ rel_weights' = update(rel_weights, operators.names, sound_person)
                /\ schedule' = Append(schedule, <<strftime_bd(date), shift, sound_person>>)
                /\ UNCHANGED <<pc, error>>

\* The key k = (date.strftime(DATE_FORMAT), shift) of the pair being processed.
key_of(pair) == <<strftime_Ymd(pair[1]), pair[2]>>

LoopBody ==
  /\ pc = "loop"
  /\ n < Len(sound_shifts(time_data))
  /\ LET pair == sound_shifts(time_data)[n + 1]
     IN  \E pop \in pools(operators.availability, operators.exceptions,
                          key_of(pair), pair[2], last_person) :
         \E x \in draws(weights_of(rel_weights, pop)) :
           Iteration(pop, x)
  /\ UNCHANGED <<config, time_data, run2>>

\* The generator is exhausted: return (counts, diagnostics), schedule.
Return ==
  /\ pc = "loop"
  /\ n = Len(sound_shifts(time_data))
  /\ pc' = "done"
  /\ UNCHANGED <<config, time_data, operators, error, n,
                 counts, rel_weights, schedule, diagnostics, last_person, run2>>

Next == LoopBody \/ Return

Spec == Init /\ [][Next]_vars

\* ------------------------------------------------- two runs, same draws

\* The same iteration in the second run, which keeps its own weights, its own
\* last_person and its own set iteration order.
Iteration2(pop, x) ==
  LET date    == sound_shifts(time_data)[n + 1][1]
      shift   == sound_shifts(time_data)[n + 1][2]
      weights == weights_of(rel_weights2, pop)
      drawn   == choices(pop, weights, x)
  IN  IF drawn.raised
        THEN /\ pc2' = "IndexError"
             /\ UNCHANGED <<rel_weights2, schedule2, last_person2>>
        ELSE /\ last_person2' = drawn.item
             /\ rel_weights2' = update(rel_weights2, operators.names, drawn.item)
             /\ schedule2' = Append(schedule2, <<strftime_bd(date), shift, drawn.item>>)
             /\ UNCHANGED pc2

\* Both runs receive the same value u of r.random(): with run 1 drawing
\* x1 = floor(u * t1), run 2 draws x2 = floor(u * t2) for the same real u in
\* [0, 1), that is, the intervals [x1/t1, (x1+1)/t1) and [x2/t2, (x2+1)/t2)
\* meet. A run whose list is empty raises before it draws.
same_draws(w1, x1, w2) ==
  IF w1 = <<>> \/ w2 = <<>>
    THEN draws(w2)
    ELSE ((x1 * SumSeq(w2)) \div SumSeq(w1)) ..
         (((x1 + 1) * SumSeq(w2) - 1) \div SumSeq(w1))

\* One iteration of both runs.
PairBody ==
  /\ pc = "loop" /\ pc2 = "loop"
  /\ n < Len(sound_shifts(time_data))
  /\ LET pair == sound_shifts(time_data)[n + 1]
     IN  \E pop1 \in pools(operators.availability, operators.exceptions,
                           key_of(pair), pair[2], last_person) :
         \E pop2 \in pools(operators.availability, operators.exceptions,
                           key_of(pair), pair[2], last_person2) :
         \E x1 \in draws(weights_of(rel_weights, pop1)) :
         \E x2 \in same_draws(weights_of(rel_weights, pop1), x1,
                              weights_of(rel_weights2, pop2)) :
           /\ Iteration(pop1, x1)
           /\ Iteration2(pop2, x2)
  /\ UNCHANGED <<config, time_data>>

\* Both runs return.
PairReturn ==
  /\ pc = "loop" /\ pc2 = "loop"
  /\ n = Len(sound_shifts(time_data))
  /\ pc' = "done" /\ pc2' = "done"
  /\ UNCHANGED <<config, time_data, operators, error, n,
                 counts, rel_weights, schedule, diagnostics, last_person,
                 rel_weights2, schedule2, last_person2>>

NextPair == PairBody \/ PairReturn

SpecPair == Init /\ [][NextPair]_vars

\* ------------------------------------------------------------ properties

\* The i-th pair of the calendar and its exception key.
Pair(i) == sound_shifts(time_data)[i]

\* The operators excepted for the i-th pair.
Excepted(i) ==
  IF key_of(Pair(i)) \in DOMAIN operators.exceptions
    THEN operators.exceptions[key_of(Pair(i))]
    ELSE {}

\* The operators of the i-th pair's pool: availability minus exceptions.
PoolSet(i) == Range(lookup(operators.availability, Pair(i)[2])) \ Excepted(i)

\* Number of shifts configured for the weekday of date d, read off the
\* configuration.
ShiftCount(d) ==
  IF strftime_A(d) \in DOMAIN config.shifts THEN Len(config.shifts[strftime_A(d)]) ELSE 0

\* Number of (date, shift) pairs of the dates fromstring(start_date) .. d.
RECURSIVE PairsUpTo(_)
PairsUpTo(d) ==
  IF d < fromstring(config.start_date) THEN 0 ELSE PairsUpTo(d - 1) + ShiftCount(d)

\* C1: the schedule has one row per (date, shift) pair of the calendar, in
\* calendar order: the m-th shift of date d, recomputed from the
\* configuration, is the row at position (pairs before d) + m, no row lies
\* beyond the calendar, and a completed run has a row for every pair.
C1_OneRowPerPair ==
  /\ \A d \in fromstring(config.start_date)..fromstring(config.end_date) :
       \A m \in 1..ShiftCount(d) :
         (PairsUpTo(d - 1) + m <= Len(schedule)) =>
           /\ schedule[PairsUpTo(d - 1) + m][1] = strftime_bd(d)
           /\ schedule[PairsUpTo(d - 1) + m][2] = config.shifts[strftime_A(d)][m]
  /\ Len(schedule) <= PairsUpTo(fromstring(config.end_date))
  /\ (pc = "done") => (Len(schedule) = PairsUpTo(fromstring(config.end_date)))

C1_Witness ==
  /\ pc = "done"
  /\ Len(schedule) >= 3
  /\ schedule[1][1] # schedule[3][1]

\* C2: the operator of every row declared the row's shift in the
\* configuration and is a member of operators.availability[shift].
C2_AssignedIsAvailable ==
  \A i \in 1..Len(schedule) :
    /\ schedule[i][2] \in DOMAIN operators.availability
    /\ schedule[i][3] \in Range(operators.availability[schedule[i][2]])
    /\ \E j \in 1..Len(config.operators) :
         /\ config.operators[j].name = schedule[i][3]
         /\ schedule[i][2] \in Range(config.operators[j].shifts)

\* A row past the first on a shift that some operator of the roster did not
\* declare.
C2_Witness ==
  \E i \in 2..Len(schedule) :
    \E name \in Range(operators.names) :
      name \notin Range(operators.availability[schedule[i][2]])

\* C3: the operator of row i is not among the operators excepted for the
\* i-th (date, shift) pair.
C3_ExceptedNeverSelected ==
  \A i \in 1..Len(schedule) : schedule[i][3] \notin Excepted(i)

\* A row past the first whose slot has an excepted operator that is otherwise
\* available for the shift, and was the one who would else be the only
\* candidate left by the no-repeat rule.
C3_Witness ==
  \E i \in 2..Len(schedule) :
    /\ Excepted(i) \cap Range(lookup(operators.availability, Pair(i)[2])) # {}
    /\ schedule[i][3] = schedule[i - 1][3]

\* C4: when the pool of slot i > 1 (availability minus exceptions) holds at
\* least two operators, rows i and i-1 name different operators.
C4_NoRepeat ==
  \A i \in 2..Len(schedule) :
    (Cardinality(PoolSet(i)) >= 2) => (schedule[i][3] # schedule[i - 1][3])

\* A slot whose pool of at least two operators contains the previous assignee.
C4_Witness ==
  \E i \in 2..Len(schedule) :
    /\ Cardinality(PoolSet(i)) >= 2
    /\ schedule[i - 1][3] \in PoolSet(i)

\* C5: whenever the pool after exceptions is non-empty, the list handed to
\* the draw (recorded in the slot's diagnostic) is non-empty.
C5_NoRepeatNeverEmpties ==
  \A i \in 1..Len(diagnostics) :
    (PoolSet(i) # {}) => (diagnostics[i].shift_counts # <<>>)

RECURSIVE SumOver(_, _)
SumOver(f, S) ==
  IF S = {} THEN 0
  ELSE LET a == CHOOSE b \in S : TRUE IN f[a] + SumOver(f, S \ {a})

\* C6: every rel_weights value, current or recorded in a diagnostic, is a
\* positive integer, and once a slot has been assigned the minimum over the
\* roster is exactly 1.
C6_WeightsPositiveMinOne ==
  /\ \A name \in DOMAIN rel_weights : rel_weights[name] >= 1
  /\ \A i \in 1..Len(diagnostics) :
       \A name \in DOMAIN diagnostics[i].rel_weights :
         diagnostics[i].rel_weights[name] >= 1
  /\ (schedule # <<>>) =>
       /\ DOMAIN rel_weights = Range(operators.names)
       /\ Min({rel_weights[name] : name \in DOMAIN rel_weights}) = 1

\* Two slots assigned, and some weight has reached 100.
C6_Witness ==
  /\ Len(schedule) >= 2
  /\ \E name \in DOMAIN rel_weights : rel_weights[name] >= 100

\* C7: every operator's count is the number of rows that name the operator,
\* every row's operator has a count, and the counts sum to the number of
\* rows.
C7_CountsMatchRows ==
  /\ \A name \in DOMAIN counts :
       counts[name] = Cardinality({i \in 1..Len(schedule) : schedule[i][3] = name})
  /\ \A i \in 1..Len(schedule) : schedule[i][3] \in DOMAIN counts
  /\ SumOver(counts, DOMAIN counts) = Len(schedule)

\* Three rows, one operator assigned twice, and a run that then aborted.
C7_Witness ==
  /\ Len(schedule) >= 3
  /\ \E name \in DOMAIN counts : counts[name] >= 2
  /\ Cardinality(DOMAIN counts) >= 2

\* C8: two runs on the same inputs that receive the same draws have the same
\* schedule, row for row.
C8_Reproducible == schedule2 = schedule

\* No operator of the configuration lists the shift.
UnknownShift(shift) ==
  \A j \in 1..Len(config.operators) : shift \notin Range(config.operators[j].shifts)

C11_InvertedRangeIsEmpty ==
  (time_data.first_date > time_data.last_date /\ pc # "KeyError") =>
    /\ sound_shifts(time_data) = <<>>
    /\ PairsUpTo(fromstring(config.end_date)) = 0
    /\ schedule = <<>>
    /\ DOMAIN counts = {}
    /\ diagnostics = <<>>
    /\ pc \in {"loop", "done"}
    /\ error = NoError

\* A run on an inverted range and a roster of three operators has returned.
C11_Witness ==
  /\ time_data.first_date > time_data.last_date
  /\ pc = "done"
  /\ Len(operators.names) = 3

\* C12: sound_shifts yields, for the dates first_date .. last_date in
\* ascending order, the shifts configured for the date's weekday in the
\* configured order: the m-th shift of date d is the pair at position
\* (pairs before d) + m, and there are no other pairs.
C12_CalendarEnumeration ==
  /\ Len(sound_shifts(time_data)) = PairsUpTo(time_data.last_date)
  /\ \A d \in time_data.first_date..time_data.last_date :
       /\ (strftime_A(d) \notin DOMAIN time_data.shifts) =>
            (\A i \in 1..Len(sound_shifts(time_data)) : Pair(i)[1] # d)
       /\ \A m \in 1..ShiftCount(d) :
            Pair(PairsUpTo(d - 1) + m) = <<d, time_data.shifts[strftime_A(d)][m]>>
  /\ \A i \in 2..Len(sound_shifts(time_data)) : Pair(i - 1)[1] <= Pair(i)[1]

\* A two-day range whose first day lists "pm" before "am" and whose second
\* day has no configured shifts, with the first pair processed.
C12_Witness ==
  /\ n >= 1
  /\ time_data.first_date < time_data.last_date
  /\ strftime_A(time_data.last_date) \notin DOMAIN time_data.shifts
  /\ Len(sound_shifts(time_data)) = 2
  /\ Pair(1)[2] = "pm" /\ Pair(2)[2] = "am"

\* The shifts configured for the weekday of a date string, none when the
\* weekday is absent from the [shifts] table.
ConfiguredShifts(date) ==
  IF strftime_A(fromstring(date)) \in DOMAIN config.shifts
    THEN Range(config.shifts[strftime_A(fromstring(date))])
    ELSE {}

\* C13: the roster is constructed for every whole-day exception [date] of an
\* operator, the operator is excepted for (date, s) exactly for the shifts s
\* configured for the weekday of date, and no row of that date names the
\* operator.
C13_WholeDayException ==
  \A j \in 1..Len(config.operators) :
    ("exceptions" \in DOMAIN config.operators[j]) =>
      \A q \in 1..Len(config.operators[j].exceptions) :
        (Len(config.operators[j].exceptions[q]) = 1) =>
          LET date == config.operators[j].exceptions[q][1]
              name == config.operators[j].name
          IN  /\ pc # "KeyError"
              /\ \A s \in ConfiguredShifts(date) :
                   /\ <<date, s>> \in DOMAIN operators.exceptions
                   /\ name \in operators.exceptions[<<date, s>>]
              /\ \A key \in DOMAIN operators.exceptions :
                   (key[1] = date /\ name \in operators.exceptions[key]) =>
                     key[2] \in ConfiguredShifts(date)
              /\ \A i \in 1..Len(schedule) :
                   (strftime_Ymd(Pair(i)[1]) = date) => (schedule[i][3] # name)

\* The lowest index whose cumulative weight strictly exceeds x.
FirstExceeding(weights, x) ==
  CHOOSE j \in 1..Len(weights) :
    /\ SumSeq(SubSeq(weights, 1, j)) > x
    /\ \A i \in 1..(j - 1) : SumSeq(SubSeq(weights, 1, i)) <= x

\* C14: for the pool and the weights of the latest draw (non-empty, positive
\* integers), choices returns for every draw value 0 .. total-1 the first
\* candidate whose cumulative weight exceeds it, every candidate is returned
\* for exactly as many draw values as its weight, and the operator assigned
\* is one of them.
C14_WeightedDraw ==
  (diagnostics # <<>> /\ diagnostics[Len(diagnostics)].shift_counts # <<>>) =>
    LET pop == diagnostics[Len(diagnostics)].shift_counts
        w   == diagnostics[Len(diagnostics)].shift_weights
    IN  /\ \A j \in 1..Len(w) : w[j] >= 1
        /\ \A x \in 0..(SumSeq(w) - 1) :
             /\ ~choices(pop, w, x).raised
             /\ choices(pop, w, x).item = pop[FirstExceeding(w, x)]
        /\ \A j \in 1..Len(pop) :
             Cardinality({x \in 0..(SumSeq(w) - 1) : choices(pop, w, x).item = pop[j]})
               = w[j]
        /\ Len(schedule) = Len(diagnostics)
        /\ schedule[Len(schedule)][3] \in Range(pop)

\* A draw among two candidates of different weights.
C14_Witness ==
  /\ diagnostics # <<>>
  /\ Len(diagnostics[Len(diagnostics)].shift_counts) = 2
  /\ diagnostics[Len(diagnostics)].shift_weights[1]
       # diagnostics[Len(diagnostics)].shift_weights[2]
  /\ Len(schedule) = Len(diagnostics)

\* The weights the claimed rule gives from the old weights w and the selected
\* operator s.
ClaimedUpdate(w, names, s) ==
  LET others == Range(names) \ {s}
      lo == IF others = {}
              THEN w[s]
              ELSE Min({w[s], 10 * Min({w[o] : o \in others})})
  IN  [o \in DOMAIN w |-> IF o = s THEN w[s] \div lo ELSE (10 * w[o]) \div lo]

\* C15: a step that appends a row changes rel_weights to the claimed function
\* of the old weights and the operator of the new row, for every roster
\* operator; a step that appends no row leaves rel_weights alone.
C15_WeightUpdate ==
  [][IF Len(schedule') = Len(schedule) + 1
       THEN rel_weights' =
              ClaimedUpdate(rel_weights, operators.names, schedule'[Len(schedule')][3])
       ELSE rel_weights' = rel_weights]_vars

\* After two rows, an operator that is not available for the shift of the
\* last row has a weight of at least 100.
C15_Witness ==
  /\ Len(schedule) >= 2
  /\ \E name \in Range(operators.names) :
       /\ name \notin Range(lookup(operators.availability, schedule[Len(schedule)][2]))
       /\ rel_weights[name] >= 100

\* C16: no weight exceeds a bound that depends on the roster alone, here one
\* factor of ten per roster operator.
C16_WeightsBounded ==
  \A name \in DOMAIN rel_weights :
    rel_weights[name] <= 10 ^ Len(operators.names)

\* C17: there is one snapshot per slot taken from the generator, the counts
\* of the i-th snapshot sum to i-1, its pool weights are its rel_weights read
\* at its pool, and its pool lies within availability minus exceptions; a
\* step that processes a slot appends one snapshot holding counts and
\* rel_weights as they were before the step and leaves the earlier snapshots
\* as they were, and any other step leaves diagnostics alone.
C17_Snapshots ==
  /\ [](/\ Len(diagnostics) = n
        /\ \A i \in 1..Len(diagnostics) :
             /\ SumOver(diagnostics[i].counts, DOMAIN diagnostics[i].counts) = i - 1
             /\ diagnostics[i].shift_weights =
                  [j \in 1..Len(diagnostics[i].shift_counts) |->
                     diagnostics[i].rel_weights[diagnostics[i].shift_counts[j]]]
             /\ Range(diagnostics[i].shift_counts) \subseteq PoolSet(i)
             /\ (i <= Len(schedule)) =>
                  (schedule[i][3] \in Range(diagnostics[i].shift_counts)))
  /\ [][IF n' = n + 1
          THEN /\ Len(diagnostics') = Len(diagnostics) + 1
               /\ SubSeq(diagnostics', 1, Len(diagnostics)) = diagnostics
               /\ diagnostics'[Len(diagnostics')].counts = counts
               /\ diagnostics'[Len(diagnostics')].rel_weights = rel_weights
          ELSE diagnostics' = diagnostics]_vars

\* Three slots assigned; the third snapshot differs from the current counts
\* and weights.
C17_Witness ==
  /\ Len(schedule) = 3
  /\ Len(diagnostics) = 3
  /\ diagnostics[3].counts # counts
  /\ diagnostics[3].rel_weights # rel_weights
  /\ diagnostics[2].rel_weights # diagnostics[3].rel_weights

\* C18: the roster and the calendar definition are as they were constructed
\* from the configuration.
C18_RosterUnchanged ==
  (pc # "KeyError") =>
    /\ operators.names = fromconfig(config).names
    /\ operators.exceptions = fromconfig(config).exceptions
    /\ DOMAIN operators.availability = DOMAIN fromconfig(config).availability
    /\ \A shift \in DOMAIN fromconfig(config).availability :
         operators.availability[shift] = fromconfig(config).availability[shift]
    /\ time_data = [first_date |-> fromstring(config.start_date),
                    last_date  |-> fromstring(config.end_date),
                    shifts     |-> config.shifts]

\* counts[name] on a Counter: a missing key reads as 0.
CountOf(c, name) == IF name \in DOMAIN c THEN c[name] ELSE 0

\* C19 as stated: from one step to the next no count and no rel_weights
\* value decreases.
C19_Monotone ==
  [][/\ \A name \in DOMAIN counts : CountOf(counts', name) >= counts[name]
     /\ \A name \in DOMAIN rel_weights : rel_weights'[name] >= rel_weights[name]]_vars

\* C19 as amended: no count decreases and no rel_weights value of an operator
\* other than the one just selected decreases; the value of the selected
\* operator stays 1 or, when it was above 1, is divided by 10.
C19_MonotoneButSelected ==
  [][/\ \A name \in DOMAIN counts : CountOf(counts', name) >= counts[name]
     /\ \A name \in DOMAIN rel_weights :
          IF Len(schedule') = Len(schedule) + 1 /\ name = schedule'[Len(schedule')][3]
            THEN rel_weights'[name] =
                   (IF rel_weights[name] = 1 THEN 1 ELSE rel_weights[name] \div 10)
            ELSE rel_weights'[name] >= rel_weights[name]]_vars

\* A slot was assigned to an operator whose weight at the draw was above 1.
C19_Witness ==
  \E i \in 1..Len(schedule) :
    diagnostics[i].rel_weights[schedule[i][3]] >= 10

RECURSIVE IsPowerOfTen(_)
IsPowerOfTen(v) == v = 1 \/ (v > 1 /\ v % 10 = 0 /\ IsPowerOfTen(v \div 10))

\* C20: every rel_weights value is a power of ten; in a step that appends a
\* row for operator s the divisor lo = min(w[s], 10 * min of the others)
\* divides every multiplied weight, the ratio of every other operator's
\* weight to that of s is multiplied by exactly 10, and the ratio between any
\* two other operators is kept.
C20_PowersOfTen ==
  /\ [](\A name \in DOMAIN rel_weights : IsPowerOfTen(rel_weights[name]))
  /\ [][(Len(schedule') = Len(schedule) + 1) =>
          LET s      == schedule'[Len(schedule')][3]
              w      == rel_weights
              others == DOMAIN rel_weights \ {s}
              lo     == IF others = {} THEN w[s]
                        ELSE Min({w[s], 10 * Min({w[o] : o \in others})})
          IN  /\ w[s] % lo = 0
              /\ \A o \in others :
                   /\ (10 * w[o]) % lo = 0
                   /\ rel_weights'[o] * w[s] = 10 * w[o] * rel_weights'[s]
              /\ \A o1, o2 \in others :
                   rel_weights'[o1] * w[o2] = w[o1] * rel_weights'[o2]]_vars

\* Three operators with three different weights.
C20_Witness ==
  /\ Len(schedule) >= 2
  /\ Cardinality({rel_weights[name] : name \in DOMAIN rel_weights}) = 3

====
